---- MODULE Spec2Model ----
(***************************************************************************)
(* A model of the spectrogram generator: the parameter grid                *)
(* (config/parameters.py), the filename synthesizer, the batch driver      *)
(* (main.py), the rendering pipeline with pyplot's global figure registry  *)
(* and the two projection paths (modules/spectrogram_visualizer.py).       *)
(*                                                                         *)
(* Python values are represented as follows.  A str is a TLA+ string.  An  *)
(* int field that is never formatted as a float (dpi, nperseg, ...) is an  *)
(* integer.  norm_gamma, polar_inner_radius and max_freq hold PyInt/PyFloat*)
(* records (the value in hundredths plus the int/float tag that decides    *)
(* how str() prints it) or None.  A dict is a function from its keys; a    *)
(* dataclass instance is a record.                                         *)
(***************************************************************************)
EXTENDS Integers, Sequences, FiniteSets, TLC

VARIABLES
    mode,            \* which driver is running: "grid", "main", "render", "paths", ...
    parameter_dict,  \* ParameterGrid.parameter_dict: <<[key, values]>> in declaration order
    base_config,     \* ParameterGrid.base_config: a SpectrogramConfig or None
    countRet,        \* the values count() has returned, in call order
    combosRet,       \* the lists generate_combinations() has returned, in call order
    config,          \* main(): the config argument, a SpectrogramConfig or None
    configs,         \* main(): the configs argument as a list (<<>> when it is None or [])
    configsGiven,    \* main(): whether the configs argument is a list rather than None
    output_dir,      \* main(): the output_dir argument ("" stands for None)
    mainPc,          \* main(): where it is
    idx,             \* main(): the batch loop's i (from 1)
    inv,             \* the generate() invocations: [pc, cfg, path, fig, err]
    figures,         \* every figure created so far, by id (its place in this list)
    figs,            \* pyplot's registry of open figures, by id; the last is current
    files,           \* the files written: path -> [writer, figure, image, format, ...]
    dirs,            \* the directories created
    sgram,           \* one waveform taken through _create_linear/_create_polar_spectrogram
    nameParams,      \* create_filename(): the params argument
    nameRet,         \* create_filename(): the values returned, in call order
    themeRet,        \* the theme factories' calls: [theme, overrides, ret], in call order
    ticks            \* one duration taken through the two tick-drawing axis tiers

gridVars == <<parameter_dict, base_config, countRet, combosRet>>

mainVars == <<config, configs, configsGiven, output_dir, mainPc, idx>>

renderVars == <<inv, figures, figs, files, dirs>>

pureVars == <<sgram, nameParams, nameRet, themeRet, ticks>>

vars == <<mode, gridVars, mainVars, renderVars, pureVars>>

-----------------------------------------------------------------------------
(* Python values *)

None == [none |-> TRUE]

PyInt(i) == [n |-> 100 * i, fl |-> FALSE]

\* a float given in hundredths: PyFloat(5) is 0.05, PyFloat(400) is 4.0
PyFloat(h) == [n |-> h, fl |-> TRUE]

\* equality that tells 4 from 4.0
NumEqTyped(a, b) == a = b

\* Python's == on two numbers: 4 == 4.0
NumEq(a, b) == a.n = b.n

Min(a, b) == IF a < b THEN a ELSE b

Digit(d) == SubSeq("0123456789", d + 1, d + 1)

\* str(i) of an int
RECURSIVE IntStr(_)
IntStr(i) ==
    IF i < 0 THEN "-" \o IntStr(-i)
    ELSE IF i < 10 THEN Digit(i)
    ELSE IntStr(i \div 10) \o Digit(i % 10)

\* str(x) of a non-negative float with at most two decimals, given in hundredths:
\* 4.0 -> "4.0", 0.05 -> "0.05", 0.3 -> "0.3"
FloatStr(h) ==
    IntStr(h \div 100) \o "." \o
        (IF h % 10 = 0 THEN Digit((h % 100) \div 10)
         ELSE Digit((h % 100) \div 10) \o Digit(h % 10))

\* what an f-string prints for a number
NumStr(v) == IF v.fl THEN FloatStr(v.n) ELSE IntStr(v.n \div 100)

UpperCase == "ABCDEFGHIJKLMNOPQRSTUVWXYZ"

LowerCase == "abcdefghijklmnopqrstuvwxyz"

LowerChar(c) ==
    IF \E i \in 1 .. Len(UpperCase) : SubSeq(UpperCase, i, i) = c
    THEN LET i == CHOOSE i \in 1 .. Len(UpperCase) : SubSeq(UpperCase, i, i) = c
         IN  SubSeq(LowerCase, i, i)
    ELSE c

\* str.lower()
RECURSIVE Lower(_)
Lower(str) == IF str = "" THEN "" ELSE LowerChar(Head(str)) \o Lower(Tail(str))

\* str.replace(" ", "")
RECURSIVE StripSpaces(_)
StripSpaces(str) ==
    IF str = "" THEN ""
    ELSE (IF Head(str) = " " THEN "" ELSE Head(str)) \o StripSpaces(Tail(str))

\* str[:n]
Prefix(str, n) == SubSeq(str, 1, Min(n, Len(str)))

\* dict.get(key, default)
Get(d, key, default) == IF key \in DOMAIN d THEN d[key] ELSE default

\* dict.get(key) is not None, for a key whose value is a number or None
HasValue(d, key) == key \in DOMAIN d /\ d[key] # None

\* dict.get(key) is not None, for a key whose value is never None when present
HasKey(d, key) == key \in DOMAIN d

-----------------------------------------------------------------------------
(* SpectrogramConfig *)

SpectrogramConfig ==
    [ projection |-> "linear", cmap |-> "magma", figsize |-> <<11, 5>>, dpi |-> 300,
      norm_gamma |-> PyFloat(400), max_freq |-> PyInt(18000), nperseg |-> 256,
      noverlap |-> 128, polar_inner_radius |-> PyFloat(5), normalize_db |-> FALSE,
      background |-> "transparent", title |-> "Spectrogram", title_font |-> "Helvetica",
      title_size |-> 20, title_color |-> "#000004", title_weight |-> "bold",
      title_position |-> "top", time_tick_interval |-> 15, show_axes |-> "minimal",
      axes_color |-> "#CCCCCC", tick_color |-> "#CCCCCC", tick_size |-> 8,
      output_format |-> "jpg", quality |-> 95 ]

\* dataclasses.replace(cfg, **overrides)
replace(cfg, overrides) ==
    [k \in DOMAIN cfg |-> IF k \in DOMAIN overrides THEN overrides[k] ELSE cfg[k]]

\* dataclasses.asdict(cfg): a fresh dict holding every field
asdict(cfg) == [k \in DOMAIN cfg |-> cfg[k]]

\* themes.minimal(**overrides)
minimal(overrides) ==
    replace(
        [ projection |-> "linear", cmap |-> "magma", figsize |-> <<11, 5>>, dpi |-> 300,
          norm_gamma |-> PyFloat(400), max_freq |-> PyInt(8000), nperseg |-> 2048,
          noverlap |-> 1900, polar_inner_radius |-> PyFloat(5), normalize_db |-> TRUE,
          background |-> "transparent", title |-> "Spectrogram",
          title_font |-> "Helvetica", title_size |-> 10, title_color |-> "#000004",
          title_weight |-> "normal", title_position |-> "bottom",
          time_tick_interval |-> 15, show_axes |-> "minimal", axes_color |-> "#CCCCCC",
          tick_color |-> "#CCCCCC", tick_size |-> 8, output_format |-> "jpg",
          quality |-> 95 ],
        overrides)

\* themes.polar_grayscale(**overrides): the fields it does not name keep the
\* dataclass defaults
polar_grayscale(overrides) ==
    replace(
        replace(SpectrogramConfig,
            [ projection |-> "polar", cmap |-> "gray_r", figsize |-> <<12, 12>>,
              dpi |-> 300, background |-> "white", title |-> "",
              title_font |-> "Helvetica", title_weight |-> "normal", title_size |-> 16,
              title_color |-> "#000000", show_axes |-> "none", nperseg |-> 2048,
              noverlap |-> 1900, max_freq |-> PyInt(10000),
              polar_inner_radius |-> PyFloat(30), normalize_db |-> TRUE,
              norm_gamma |-> PyFloat(100), output_format |-> "png", quality |-> 95 ]),
        overrides)

\* a call with no overrides
NoOverrides == [k \in {} |-> ""]

-----------------------------------------------------------------------------
(* ParameterGrid *)

\* productStep with the two loops exchanged: the leftmost pool varies fastest
productStepLeftFastest(result, pool) ==
    [i \in 1 .. (Len(result) * Len(pool)) |->
        Append(result[((i - 1) % Len(result)) + 1], pool[((i - 1) \div Len(result)) + 1])]

\* one step of itertools.product: [x + [y] for x in result for y in pool]
productStep(result, pool) ==
    [i \in 1 .. (Len(result) * Len(pool)) |->
        Append(result[((i - 1) \div Len(pool)) + 1], pool[((i - 1) % Len(pool)) + 1])]

\* itertools.product(*pools), starting from result = [[]]
RECURSIVE product(_, _)
product(result, pools) ==
    IF pools = <<>> THEN result
    ELSE product(productStep(result, Head(pools)), Tail(pools))

keysOf(pd) == [j \in 1 .. Len(pd) |-> pd[j].key]

valuesOf(pd) == [j \in 1 .. Len(pd) |-> pd[j].values]

\* for key, value in zip(keys, combo): params[key] = value
RECURSIVE override(_, _, _)
override(params, keys, combo) ==
    IF keys = <<>> \/ combo = <<>> THEN params
    ELSE override((Head(keys) :> Head(combo)) @@ params, Tail(keys), Tail(combo))

\* generate_combinations with "params = base_params" (no .copy()): every entry of
\* the returned list is the one dict, which ends up holding the last combination
generate_combinations_nocopy(pd, base) ==
    LET base_params == IF base # None THEN asdict(base) ELSE <<>>
        keys == keysOf(pd)
        combos == product(<< <<>> >>, valuesOf(pd))
    IN  [i \in 1 .. Len(combos) |-> override(base_params, keys, combos[Len(combos)])]

generate_combinations(pd, base) ==
    LET base_params == IF base # None THEN asdict(base) ELSE <<>>
        keys == keysOf(pd)
        combos == product(<< <<>> >>, valuesOf(pd))
    IN  [i \in 1 .. Len(combos) |-> override(base_params, keys, combos[i])]

RECURSIVE countFrom(_, _)
countFrom(c, values) ==
    IF values = <<>> THEN c ELSE countFrom(c * Len(Head(values)), Tail(values))

\* count that skips an empty value list instead of multiplying by 0
count_skip_empty(pd) ==
    countFrom(1, SelectSeq(valuesOf(pd), LAMBDA v : v # <<>>))

count(pd) == countFrom(1, valuesOf(pd))

-----------------------------------------------------------------------------
(* The filename synthesizer *)

\* create_filename with the title token written before the font token
create_filename_title_first(params) ==
    LET figsize == Get(params, "figsize", <<11, 5>>)
        projection == Get(params, "projection", "linear")
    IN  "spectrogram_" \o Get(params, "cmap", "default") \o "_" \o projection
            \o "_" \o IntStr(figsize[1]) \o "x" \o IntStr(figsize[2])
            \o "_gamma" \o NumStr(Get(params, "norm_gamma", PyInt(4)))
            \o "_dpi" \o IntStr(Get(params, "dpi", 300))
            \o (IF /\ projection = "polar"
                   /\ HasValue(params, "polar_inner_radius")
                   /\ ~NumEq(params["polar_inner_radius"], PyFloat(5))
                THEN "_hole" \o NumStr(params["polar_inner_radius"]) ELSE "")
            \o (IF HasKey(params, "nperseg") /\ params["nperseg"] # 256
                THEN "_seg" \o IntStr(params["nperseg"]) ELSE "")
            \o (IF HasValue(params, "max_freq") /\ ~NumEq(params["max_freq"], PyInt(18000))
                THEN "_freq" \o NumStr(params["max_freq"]) ELSE "")
            \o (IF HasKey(params, "title")
                THEN "_" \o Prefix(StripSpaces(params["title"]), 20) ELSE "")
            \o (IF HasKey(params, "title_font")
                THEN "_" \o StripSpaces(params["title_font"]) ELSE "")
            \o "." \o Get(params, "output_format", "jpg")

\* create_filename with the dpi token written before the gamma token
create_filename_dpi_first(params) ==
    LET figsize == Get(params, "figsize", <<11, 5>>)
    IN  "spectrogram_" \o Get(params, "cmap", "default")
            \o "_" \o Get(params, "projection", "linear")
            \o "_" \o IntStr(figsize[1]) \o "x" \o IntStr(figsize[2])
            \o "_dpi" \o IntStr(Get(params, "dpi", 300))
            \o "_gamma" \o NumStr(Get(params, "norm_gamma", PyInt(4)))
            \o "." \o Get(params, "output_format", "jpg")

create_filename(params) ==
    LET cmap == Get(params, "cmap", "default")
        projection == Get(params, "projection", "linear")
        figsize == Get(params, "figsize", <<11, 5>>)
        gamma == Get(params, "norm_gamma", PyInt(4))
        dpi == Get(params, "dpi", 300)
        output_format == Get(params, "output_format", "jpg")
        figsize_str == IntStr(figsize[1]) \o "x" \o IntStr(figsize[2])
        base == "spectrogram_" \o cmap \o "_" \o projection \o "_" \o figsize_str
                    \o "_gamma" \o NumStr(gamma) \o "_dpi" \o IntStr(dpi)
        hole == IF /\ projection = "polar"
                   /\ HasValue(params, "polar_inner_radius")
                   /\ ~NumEq(params["polar_inner_radius"], PyFloat(5))
                THEN "_hole" \o NumStr(params["polar_inner_radius"]) ELSE ""
        seg == IF HasKey(params, "nperseg") /\ params["nperseg"] # 256
               THEN "_seg" \o IntStr(params["nperseg"]) ELSE ""
        freq == IF HasValue(params, "max_freq") /\ ~NumEq(params["max_freq"], PyInt(18000))
                THEN "_freq" \o NumStr(params["max_freq"]) ELSE ""
        font == IF HasKey(params, "title_font")
                THEN "_" \o StripSpaces(params["title_font"]) ELSE ""
        title == IF HasKey(params, "title")
                 THEN "_" \o Prefix(StripSpaces(params["title"]), 20) ELSE ""
    IN  base \o hole \o seg \o freq \o font \o title \o "." \o output_format

-----------------------------------------------------------------------------
(* pyplot's figure registry and SpectrogramGenerator.generate, step by step *)

\* pathlib.Path(dir) / name
PathIn(dir, name) == [dir |-> dir, name |-> name]

NoFigure == 0

\* plt.figure(...): a new figure, registered and made current
NewFigure(owner, cfg) ==
    [ owner |-> owner, projection |-> cfg.projection,
      facecolor |-> IF cfg.background = "transparent" THEN "none" ELSE cfg.background,
      axes |-> "default", title |-> "", title_y |-> 0, title_va |-> "" ]

\* plt.gcf(): the current figure is the last one registered (the registry is not
\* empty when savefig asks: the caller's own figure is still open)
gcf == figs[Len(figs)]

\* plt.close(fig): the figure leaves the registry
CloseFigure(id) == SelectSeq(figs, LAMBDA f : f # id)

\* _style_linear_axes / _style_polar_axes: the tier the axes end up in; a value
\* that is none of the three matches no branch and leaves the axes as created
StyledAxes(cfg, before) ==
    IF cfg.show_axes \in {"minimal", "full", "none"} THEN cfg.show_axes ELSE before

\* _apply_styling: the axes, then the title when it is not empty
Styled(cfg, fig) ==
    LET axed == [fig EXCEPT !.axes =
                    IF cfg.projection \in {"linear", "polar"}
                    THEN StyledAxes(cfg, fig.axes) ELSE fig.axes]
    IN  IF cfg.title # ""
        THEN IF cfg.title_position = "top"
             THEN [axed EXCEPT !.title = cfg.title, !.title_y = 98, !.title_va = "top"]
             ELSE [axed EXCEPT !.title = cfg.title, !.title_y = 2, !.title_va = "bottom"]
        ELSE axed

\* _save_figure with every unknown format written as PNG instead of rejected
FormatBranchDefaultPng(cfg) ==
    IF Lower(cfg.output_format) \in {"jpg", "png", "svg"}
    THEN Lower(cfg.output_format) ELSE "png"

\* _save_figure: the branch that output_format.lower() selects
FormatBranch(cfg) ==
    IF Lower(cfg.output_format) \in {"jpg", "png", "svg"}
    THEN Lower(cfg.output_format) ELSE "invalid"

\* a call of generate(audio_data, sample_rate, output_path) on a generator
\* holding cfg, about to run
Invocation(cfg, path) ==
    [pc |-> "create", cfg |-> cfg, path |-> path, fig |-> NoFigure, err |-> ""]

\* generate, lines 81-89: the figure is created, or the projection is rejected
Create(t) ==
    /\ inv[t].pc = "create"
    /\ IF inv[t].cfg.projection \in {"linear", "polar"}
       THEN /\ figures' = Append(figures, NewFigure(t, inv[t].cfg))
            /\ figs' = Append(figs, Len(figures) + 1)
            /\ inv' = [inv EXCEPT ![t].pc = "style", ![t].fig = Len(figures) + 1]
       ELSE /\ inv' = [inv EXCEPT ![t].pc = "raised",
                                  ![t].err = "ValueError: Invalid projection"]
            /\ UNCHANGED <<figures, figs>>
    /\ UNCHANGED <<mode, pureVars, gridVars, mainVars, files, dirs>>

\* generate, lines 91-93: _apply_styling on the invocation's own fig and ax
Style(t) ==
    /\ inv[t].pc = "style"
    /\ figures' = [figures EXCEPT ![inv[t].fig] = Styled(inv[t].cfg, @)]
    /\ inv' = [inv EXCEPT ![t].pc = "save"]
    /\ UNCHANGED <<mode, pureVars, gridVars, mainVars, figs, files, dirs>>

\* generate, lines 95-96: _save_figure makes the parent directory, then
\* plt.savefig writes pyplot's current figure to the path, or the format is
\* rejected
Save(t) ==
    /\ inv[t].pc = "save"
    /\ dirs' = dirs \cup {inv[t].path.dir}
    /\ IF FormatBranch(inv[t].cfg) # "invalid"
       THEN /\ files' =
                 (inv[t].path :>
                     [ writer |-> t, figure |-> gcf, image |-> figures[gcf],
                       format |-> FormatBranch(inv[t].cfg),
                       transparent |-> (inv[t].cfg.background = "transparent") ])
                 @@ files
            /\ inv' = [inv EXCEPT ![t].pc = "close"]
       ELSE /\ inv' = [inv EXCEPT ![t].pc = "raised",
                                  ![t].err = "ValueError: Invalid output format"]
            /\ UNCHANGED files
    /\ UNCHANGED <<mode, pureVars, gridVars, mainVars, figures, figs>>

\* what a write that stopped part-way leaves at the path
Truncated == [truncated |-> TRUE]

\* _save_figure when the backend's write fails part-way (the disk fills up, the
\* path stops being writable): savefig writes to output_path itself, so what
\* was written stays there; an encoder that removes a file it created itself
\* leaves nothing, but only where no file was before
SaveInterrupted(t) ==
    /\ inv[t].pc = "save"
    /\ FormatBranch(inv[t].cfg) # "invalid"
    /\ dirs' = dirs \cup {inv[t].path.dir}
    /\ \/ files' =
             (inv[t].path :>
                 [ writer |-> t, figure |-> gcf, image |-> Truncated,
                   format |-> FormatBranch(inv[t].cfg),
                   transparent |-> (inv[t].cfg.background = "transparent") ])
             @@ files
       \/ inv[t].path \notin DOMAIN files /\ UNCHANGED files
    /\ inv' = [inv EXCEPT ![t].pc = "raised", ![t].err = "OSError"]
    /\ UNCHANGED <<mode, pureVars, gridVars, mainVars, figures, figs>>

\* generate, lines 98-99: plt.close(fig)
Close(t) ==
    /\ inv[t].pc = "close"
    /\ figs' = CloseFigure(inv[t].fig)
    /\ inv' = [inv EXCEPT ![t].pc = "returned"]
    /\ UNCHANGED <<mode, pureVars, gridVars, mainVars, figures, files, dirs>>

-----------------------------------------------------------------------------
(* The grid driver: a ParameterGrid is constructed, then queried. *)

MaxVals == 2

MaxCalls == 3

\* the keys a sweep declares, in declaration order
GridKeyOrders ==
    { <<>>, <<"cmap">>, <<"dpi", "cmap">>, <<"cmap", "dpi">>,
      <<"projection", "cmap", "dpi">> }

GridCandidates(k) ==
    CASE k = "cmap" -> {"viridis", "magma"}
      [] k = "projection" -> {"linear", "polar"}
      [] k = "dpi" -> {150, 300}

ValueLists(k) == UNION {[1 .. n -> GridCandidates(k)] : n \in 0 .. MaxVals}

RECURSIVE DictsOver(_)
DictsOver(ks) ==
    IF ks = <<>> THEN {<<>>}
    ELSE {<<[key |-> Head(ks), values |-> v]>> \o rest :
              v \in ValueLists(Head(ks)), rest \in DictsOver(Tail(ks))}

GridDicts == UNION {DictsOver(ks) : ks \in GridKeyOrders}

BaseConfigs ==
    {None,
     replace(SpectrogramConfig, [projection |-> "polar", cmap |-> "gray_r", dpi |-> 600])}

\* ParameterGrid.__init__
InitGrid ==
    /\ mode = "grid"
    /\ parameter_dict \in GridDicts
    /\ base_config \in BaseConfigs
    /\ countRet = <<>>
    /\ combosRet = <<>>
    /\ config = None /\ configs = <<>> /\ configsGiven = FALSE /\ output_dir = "" /\ mainPc = "none" /\ idx = 0
    /\ inv = <<>> /\ figures = <<>> /\ figs = <<>> /\ files = <<>> /\ dirs = {}
    /\ sgram = None /\ nameParams = <<>> /\ nameRet = <<>>
    /\ themeRet = <<>> /\ ticks = None

Count ==
    /\ mode = "grid"
    /\ Len(countRet) + Len(combosRet) < MaxCalls
    /\ countRet' = Append(countRet, count(parameter_dict))
    /\ UNCHANGED <<mode, pureVars, parameter_dict, base_config, combosRet, mainVars, renderVars>>

\* generate_combinations working on the base configuration's own field dict
\* (vars(self.base_config), no copy): the base configuration is left holding the
\* last combination
GenerateCombinationsInPlace ==
    /\ mode = "grid"
    /\ Len(countRet) + Len(combosRet) < MaxCalls
    /\ LET ret == generate_combinations_nocopy(parameter_dict, base_config)
       IN  /\ combosRet' = Append(combosRet, ret)
           /\ base_config' =
                 IF base_config # None /\ ret # <<>>
                 THEN [k \in DOMAIN base_config |-> ret[Len(ret)][k]]
                 ELSE base_config
    /\ UNCHANGED <<mode, pureVars, parameter_dict, countRet, mainVars, renderVars>>

GenerateCombinations ==
    /\ mode = "grid"
    /\ Len(countRet) + Len(combosRet) < MaxCalls
    /\ combosRet' = Append(combosRet, generate_combinations(parameter_dict, base_config))
    /\ UNCHANGED <<mode, pureVars, parameter_dict, base_config, countRet, mainVars, renderVars>>

NextGrid == Count \/ GenerateCombinations

SpecGrid == InitGrid /\ [][NextGrid]_vars

-----------------------------------------------------------------------------
(* Claims about the parameter grid, checked under SpecGrid. *)

GridKeys == {parameter_dict[j].key : j \in DOMAIN parameter_dict}

\* the number of ways to pick one position in every value list
ChoiceCount ==
    Cardinality({f \in [DOMAIN parameter_dict -> 1 .. MaxVals] :
                    \A j \in DOMAIN parameter_dict : f[j] <= Len(parameter_dict[j].values)})

\* C1: every value count() returned is the product of the value-list lengths,
\* and it is the length of every list generate_combinations() returned, for the
\* empty dictionary, for a dictionary with an empty value list, and with or
\* without a base configuration.
C1_CountIsLenOfCombinations ==
    /\ \A i \in DOMAIN countRet : countRet[i] = ChoiceCount
    /\ \A j \in DOMAIN combosRet : Len(combosRet[j]) = ChoiceCount
    /\ \A i \in DOMAIN countRet : \A j \in DOMAIN combosRet :
          countRet[i] = Len(combosRet[j])

C1_Witness ==
    /\ countRet # <<>> /\ combosRet # <<>>
    /\ base_config # None
    /\ Len(parameter_dict) = 3
    /\ countRet[1] = 8 /\ Len(combosRet[1]) = 8

\* the number of combinations over which key j keeps one position: the product
\* of the lengths of the value lists declared after it
RECURSIVE Stride(_)
Stride(j) ==
    IF j >= Len(parameter_dict) THEN 1
    ELSE Len(parameter_dict[j + 1].values) * Stride(j + 1)

\* the position in key j's value list that the i-th combination (from 1) takes
LexPosition(i, j) == (((i - 1) \div Stride(j)) % Len(parameter_dict[j].values)) + 1

\* the value list of key j repeats no value between neighbours, the last entry
\* and the first taken as neighbours too
NoRepeatedNeighbour(j) ==
    LET v == parameter_dict[j].values
    IN  /\ Len(v) >= 2
        /\ \A p \in 1 .. Len(v) : v[p] # v[(p % Len(v)) + 1]

\* C2 (as stated): between every two consecutive combinations the value of the
\* last-declared key changes.
C2_LastKeyAlwaysChanges ==
    \A c \in DOMAIN combosRet : \A i \in 1 .. (Len(combosRet[c]) - 1) :
        parameter_dict # <<>> =>
            LET last == parameter_dict[Len(parameter_dict)].key
            IN  combosRet[c][i][last] # combosRet[c][i + 1][last]

\* C2 (amended): the combinations come in lexicographic product order over the
\* keys in declaration order: the i-th combination takes, for the j-th key, the
\* entry of its value list at position ((i-1) div (product of the later lists'
\* lengths)) mod (the list's length), so the last key's position moves at every
\* step and the first key's moves slowest; the last key's value changes between
\* every two consecutive combinations when its list has at least two entries and
\* repeats no value between neighbours; the i-th combination is the same in every
\* call.
C2_LexicographicOrder ==
    \A c \in DOMAIN combosRet :
        /\ \A i \in DOMAIN combosRet[c] : \A j \in DOMAIN parameter_dict :
              combosRet[c][i][parameter_dict[j].key] =
                  parameter_dict[j].values[LexPosition(i, j)]
        /\ (parameter_dict # <<>> /\ NoRepeatedNeighbour(Len(parameter_dict))) =>
              \A i \in 1 .. (Len(combosRet[c]) - 1) :
                  LET last == parameter_dict[Len(parameter_dict)].key
                  IN  combosRet[c][i][last] # combosRet[c][i + 1][last]
        /\ \A d \in DOMAIN combosRet : \A i \in DOMAIN combosRet[c] :
              i \in DOMAIN combosRet[d] /\ combosRet[d][i] = combosRet[c][i]

C2_Witness ==
    /\ Len(combosRet) >= 2
    /\ Len(parameter_dict) = 3
    /\ Len(combosRet[1]) = 8
    /\ \A j \in DOMAIN parameter_dict : NoRepeatedNeighbour(j)

\* C3: every returned combination holds, for each varied key, the value the
\* product chose for that combination, and for every other field exactly the
\* base configuration's value; with no base configuration it holds the varied
\* keys and nothing else.
C3_OnlyVariedFieldsOverridden ==
    \A c \in DOMAIN combosRet :
        LET chosen == product(<< <<>> >>, valuesOf(parameter_dict))
        IN  /\ Len(combosRet[c]) = Len(chosen)
            /\ \A i \in DOMAIN combosRet[c] :
                  LET combo == combosRet[c][i]
                  IN  /\ DOMAIN combo =
                            GridKeys \cup (IF base_config # None THEN DOMAIN base_config ELSE {})
                      /\ \A j \in DOMAIN parameter_dict :
                            combo[parameter_dict[j].key] = chosen[i][j]
                      /\ \A k \in (DOMAIN combo) \ GridKeys : combo[k] = base_config[k]

C3_Witness ==
    /\ combosRet # <<>>
    /\ base_config # None
    /\ Len(parameter_dict) = 2
    /\ Len(combosRet[1]) = 4
    /\ combosRet[1][1] # combosRet[1][4]
    /\ combosRet[1][1].cmap # base_config.cmap

\* C4: no call of count() or generate_combinations() changes parameter_dict or
\* base_config, and every list generate_combinations() returns equals the one
\* its first call returned.
C4_ExpansionIsPure ==
    [][ /\ parameter_dict' = parameter_dict
        /\ base_config' = base_config
        /\ \A c \in DOMAIN combosRet' : combosRet'[c] = combosRet'[1] ]_vars

C4_Witness ==
    /\ Len(combosRet) >= 2
    /\ Len(countRet) >= 1
    /\ base_config # None
    /\ Len(combosRet[2]) >= 4

-----------------------------------------------------------------------------
(* main(source, config, configs, trim_start, output_dir), from step 3 on: the
   audio is loaded and preprocessed by then. *)

MaxBatch == 2

\* the configurations a caller passes: the two themes main.py uses, and one
\* override of each kind at a time
CallerConfigs ==
    { minimal(NoOverrides), polar_grayscale(NoOverrides),
      polar_grayscale([title |-> "2001: A Space Odyssey", title_position |-> "left"]),
      minimal([title_position |-> "left"]),
      polar_grayscale([title_position |-> "left"]),
      minimal([show_axes |-> "ticks"]),
      polar_grayscale([show_axes |-> "ticks"]),
      minimal([output_format |-> "bmp"]),
      minimal([output_format |-> "PNG"]),
      minimal([background |-> "white"]),
      minimal([background |-> "black"]),
      minimal([projection |-> "3d"]) }

BatchLists == UNION {[1 .. n -> CallerConfigs] : n \in 1 .. MaxBatch}

\* datetime.now().strftime(...): some timestamp
Timestamp == "20250101_120000"

\* "if configs:" -- None and the empty list both select the single mode
BatchMode == configs # <<>>

\* the batch's directory
out_dir == IF output_dir # "" THEN output_dir ELSE "output/spectrograms_" \o Timestamp

\* the invocation main is waiting for
current == Len(inv)

InitMain ==
    /\ mode = "main"
    /\ \/ configs = <<>> /\ configsGiven \in BOOLEAN /\ config \in {None} \cup CallerConfigs
       \/ configs \in BatchLists /\ configsGiven = TRUE /\ config \in {None, minimal([dpi |-> 600])}
    /\ output_dir \in {"", "out"}
    /\ mainPc = "start"
    /\ idx = 0
    /\ inv = <<>> /\ figures = <<>> /\ figs = <<>> /\ files = <<>> /\ dirs = {}
    /\ sgram = None /\ nameParams = <<>> /\ nameRet = <<>>
    /\ themeRet = <<>> /\ ticks = None
    /\ parameter_dict = <<>> /\ base_config = None /\ countRet = <<>> /\ combosRet = <<>>

\* lines 79-93: the batch mode makes its output directory
MainBatchBegin ==
    /\ mode = "main" /\ mainPc = "start"
    /\ BatchMode
    /\ dirs' = dirs \cup {out_dir}
    /\ idx' = 1
    /\ mainPc' = "loop"
    /\ UNCHANGED <<mode, pureVars, gridVars, config, configs, configsGiven, output_dir, inv, figures, figs, files>>

\* lines 97-102: one turn of the loop, up to the call of generate
MainBatchCall ==
    /\ mode = "main" /\ mainPc = "loop"
    /\ idx <= Len(configs)
    /\ LET cfg == configs[idx]
           filename == create_filename(asdict(cfg))
       IN  inv' = Append(inv, Invocation(cfg, PathIn(out_dir, filename)))
    /\ mainPc' = "generating"
    /\ UNCHANGED <<mode, pureVars, gridVars, config, configs, configsGiven, output_dir, idx, figures, figs, files, dirs>>

\* generate returned: the loop goes on to the next configuration
MainBatchNext ==
    /\ mode = "main" /\ mainPc = "generating"
    /\ inv[current].pc = "returned"
    /\ idx' = idx + 1
    /\ mainPc' = "loop"
    /\ UNCHANGED <<mode, pureVars, gridVars, config, configs, configsGiven, output_dir, renderVars>>

\* lines 104-107: the loop is over
MainBatchDone ==
    /\ mode = "main" /\ mainPc = "loop"
    /\ idx > Len(configs)
    /\ mainPc' = "done"
    /\ UNCHANGED <<mode, pureVars, gridVars, config, configs, configsGiven, output_dir, idx, renderVars>>

\* lines 109-124: the single mode, up to the call of generate
MainSingleCall ==
    /\ mode = "main" /\ mainPc = "start"
    /\ ~BatchMode
    /\ LET cfg == IF config # None THEN config ELSE minimal(NoOverrides)
           output_path == IF output_dir # "" THEN PathIn(".", output_dir)
                          ELSE PathIn(".", "spectrogram." \o cfg.output_format)
       IN  inv' = Append(inv, Invocation(cfg, output_path))
    /\ mainPc' = "single"
    /\ UNCHANGED <<mode, pureVars, gridVars, config, configs, configsGiven, output_dir, idx, figures, figs, files, dirs>>

\* lines 126-129
MainSingleDone ==
    /\ mode = "main" /\ mainPc = "single"
    /\ inv[current].pc = "returned"
    /\ mainPc' = "done"
    /\ UNCHANGED <<mode, pureVars, gridVars, config, configs, configsGiven, output_dir, idx, renderVars>>

\* generate raised: main has no handler, the exception leaves main
MainRaise ==
    /\ mode = "main" /\ mainPc \in {"generating", "single"}
    /\ inv[current].pc = "raised"
    /\ mainPc' = "raised"
    /\ UNCHANGED <<mode, pureVars, gridVars, config, configs, configsGiven, output_dir, idx, renderVars>>

\* main calls generate and waits: the one invocation running is its last call
Waiting == mode = "main" /\ mainPc \in {"generating", "single"}

NextMain ==
    \/ MainBatchBegin \/ MainBatchCall \/ MainBatchNext \/ MainBatchDone
    \/ MainSingleCall \/ MainSingleDone \/ MainRaise
    \/ Waiting /\ Create(current)
    \/ Waiting /\ Style(current)
    \/ Waiting /\ Save(current)
    \/ Waiting /\ SaveInterrupted(current)
    \/ Waiting /\ Close(current)

SpecMain == InitMain /\ [][NextMain]_vars

-----------------------------------------------------------------------------
(* Claims about the batch driver and one generate() call, checked under
   SpecMain. *)

FilenameOf(cfg) == create_filename(asdict(cfg))

PairwiseDifferent(list) ==
    \A i \in DOMAIN list : \A j \in DOMAIN list : i # j => list[i] # list[j]

WrittenBy(t) == {p \in DOMAIN files : files[p].writer = t}

\* every field of the configuration holds one of its documented values
Documented(cfg) ==
    /\ cfg.projection \in {"linear", "polar"}
    /\ cfg.show_axes \in {"minimal", "full", "none"}
    /\ cfg.title_position \in {"top", "bottom"}
    /\ cfg.output_format \in {"jpg", "png", "svg"}

\* C5: a batch of N configurations that differ from one another (each of them
\* holding documented values only) gets N different filenames, and once the
\* batch is done its output directory holds N files: no output has overwritten
\* an earlier one.
C5_DistinctConfigsDistinctFiles ==
    (/\ BatchMode /\ PairwiseDifferent(configs) /\ mainPc = "done"
     /\ \A i \in DOMAIN configs : Documented(configs[i])) =>
        /\ \A i \in DOMAIN configs : \A j \in DOMAIN configs :
              i # j => FilenameOf(configs[i]) # FilenameOf(configs[j])
        /\ Cardinality(DOMAIN files) = Len(configs)

\* C6: a failing generate() does not abort the batch: when main is over, whether
\* or not a configuration failed, every configuration of the list has had its
\* generate() call.
C6_FailureDoesNotAbortBatch ==
    (BatchMode /\ mainPc \in {"done", "raised"}) => Len(inv) = Len(configs)

\* C8: with a title to draw, a title_position that is neither "top" nor "bottom"
\* makes styling fail: such an invocation never gets past styling.
C8_InvalidTitlePositionFails ==
    \A t \in DOMAIN inv :
        (inv[t].cfg.title # "" /\ inv[t].cfg.title_position \notin {"top", "bottom"}) =>
            /\ inv[t].pc \in {"create", "style", "raised"}
            /\ WrittenBy(t) = {}

\* C9: a show_axes that is none of "minimal", "full", "none" makes styling fail,
\* in the linear and in the polar projection: such an invocation never gets past
\* styling and writes no image.
C9_InvalidAxisTierFails ==
    \A t \in DOMAIN inv :
        inv[t].cfg.show_axes \notin {"minimal", "full", "none"} =>
            /\ inv[t].pc \in {"create", "style", "raised"}
            /\ WrittenBy(t) = {}

\* C10 (as stated): an invocation whose output_format is not one of the strings
\* jpg, png, svg never completes and writes no image.
C10_OtherFormatWritesNothing ==
    \A t \in DOMAIN inv :
        inv[t].cfg.output_format \notin {"jpg", "png", "svg"} =>
            /\ inv[t].pc \notin {"close", "returned"}
            /\ WrittenBy(t) = {}

UnknownFormat(t) == Lower(inv[t].cfg.output_format) \notin {"jpg", "png", "svg"}

\* C10 (amended): an invocation whose output_format, lower-cased, is not one of
\* jpg, png, svg never completes and writes no image; its saving step raises the
\* invalid-output-format ValueError and leaves the files as they were.
C10_UnknownFormatRejected ==
    /\ [](\A t \in DOMAIN inv :
            UnknownFormat(t) =>
                inv[t].pc \notin {"close", "returned"} /\ WrittenBy(t) = {})
    /\ [][\A t \in DOMAIN inv :
            (UnknownFormat(t) /\ inv[t].pc = "save" /\ inv'[t].pc # "save") =>
                /\ inv'[t].pc = "raised"
                /\ inv'[t].err = "ValueError: Invalid output format"
                /\ files' = files]_vars

C10_Witness ==
    /\ Len(inv) = 2
    /\ inv[1].pc = "returned" /\ WrittenBy(1) # {}
    /\ inv[2].cfg.output_format = "bmp"
    /\ inv[2].pc = "raised"
    /\ inv[2].err = "ValueError: Invalid output format"
    /\ inv[2].fig # NoFigure
    /\ mainPc = "raised"

-----------------------------------------------------------------------------
(* More claims about main() and generate(), checked under SpecMain. *)

\* C25: a transparent background is never passed on to the JPEG encoder: a
\* JPEG is written only with the transparency request resolved to opaque, or
\* the render is rejected.
C25_NoTransparentJpeg ==
    \A p \in DOMAIN files : files[p].format = "jpg" => ~files[p].transparent

\* C26: when encoding fails, the output path holds nothing or what it held
\* before: the step in which saving raises leaves no new content there.
C26_NoPartialFile ==
    [][\A t \in DOMAIN inv :
          (inv[t].pc = "save" /\ inv'[t].pc = "raised") =>
              \/ inv[t].path \notin DOMAIN files'
              \/ inv[t].path \in DOMAIN files /\ files'[inv[t].path] = files[inv[t].path]]_vars

\* C28: main() given a configs list of any length, the empty one included, has,
\* when it is done, called generate() exactly once per element, in list
\* order, and for no other configuration.
C28_OneCallPerListElement ==
    (mode = "main" /\ configsGiven /\ mainPc = "done") =>
        /\ Len(inv) = Len(configs)
        /\ \A i \in DOMAIN inv : inv[i].cfg = configs[i]

IsOpen(fig) == \E i \in DOMAIN figs : figs[i] = fig

\* C29: once generate() has returned or raised, the figure it created is no
\* longer open.
C29_NoFigureLeftOpen ==
    \A t \in DOMAIN inv : inv[t].pc \in {"returned", "raised"} => ~IsOpen(inv[t].fig)

-----------------------------------------------------------------------------
(* The web app (app.py, generate_spectrogram): every browser session runs in a
   thread of its own and calls generate on a temporary file of its own. *)

NThreads == 2

\* theme_func(title=custom_title, title_position=title_position)
AppOverrides == [title : {"", "My Song"}, title_position : {"top", "bottom"}]

AppConfigs ==
    {minimal(o) : o \in AppOverrides} \cup {polar_grayscale(o) : o \in AppOverrides}

\* tempfile.NamedTemporaryFile(suffix=f".{config.output_format}"): a name no
\* other session has
TempFile(t, cfg) == PathIn("/tmp", "tmp" \o IntStr(t) \o "." \o cfg.output_format)

InitRender ==
    /\ mode = "render"
    /\ \E cfgs \in [1 .. NThreads -> AppConfigs] :
          inv = [t \in 1 .. NThreads |-> Invocation(cfgs[t], TempFile(t, cfgs[t]))]
    /\ figures = <<>> /\ figs = <<>> /\ files = <<>> /\ dirs = {}
    /\ sgram = None /\ nameParams = <<>> /\ nameRet = <<>>
    /\ themeRet = <<>> /\ ticks = None
    /\ config = None /\ configs = <<>> /\ configsGiven = FALSE /\ output_dir = "" /\ mainPc = "none" /\ idx = 0
    /\ parameter_dict = <<>> /\ base_config = None /\ countRet = <<>> /\ combosRet = <<>>

\* the threads' generate calls interleave statement by statement
NextRender ==
    \/ \E t \in DOMAIN inv : Create(t)
    \/ \E t \in DOMAIN inv : Style(t)
    \/ \E t \in DOMAIN inv : Save(t)
    \/ \E t \in DOMAIN inv : Close(t)

SpecRender == InitRender /\ [][NextRender]_vars

-----------------------------------------------------------------------------
(* Claims about interleaved generate() calls, checked under SpecRender. *)

\* C7: no invocation shares its canvas: every file written holds the figure
\* that the invocation which wrote it created itself.
C7_SavesOwnFigure ==
    \A p \in DOMAIN files : figures[files[p].figure].owner = files[p].writer

-----------------------------------------------------------------------------
(* The two projection paths, _create_linear_spectrogram and                *)
(* _create_polar_spectrogram, on one waveform.                             *)
(*                                                                         *)
(* A waveform is [len, profile]: its number of samples and the shape of    *)
(* its power over frequency and time, which stands for what the short-time *)
(* Fourier transform computes from it.  A power is 0 or a power of ten.    *)
(* Frequencies, matrix entries after normalization and mesh edges are      *)
(* exact fractions [p, q]; nan is what numpy gives for 0/0.  Angles are in *)
(* degrees, radii in hundredths.                                           *)

ZeroPower == [zero |-> TRUE]

Pow10(e) == [exp |-> e]

Frac(p, q) == [p |-> p, q |-> q]

nan == [nan |-> TRUE]

NegInf == [inf |-> -1]

\* a / b on floats under numpy's default error state: 0/0 warns and gives nan
TrueDivide(a, b) == IF b = 0 THEN nan ELSE Frac(a, b)

\* the power the estimators find in frequency bin i (from 1) of frame j
Power(audio_data, i, j, nbins) ==
    CASE audio_data.profile = "silence" -> ZeroPower
      [] audio_data.profile = "tone"    -> IF i = Min(2, nbins) THEN Pow10(0) ELSE Pow10(-4)
      [] audio_data.profile = "hiss"    -> IF i = nbins THEN Pow10(0) ELSE Pow10(-4)
      [] audio_data.profile = "burst"   -> IF j = 1 THEN Pow10(0) ELSE ZeroPower
      [] audio_data.profile = "ramp"    -> Pow10(-i)

\* the one-sided frequency grid of an n-point transform: k * fs / n
FreqGrid(fs, n) == [k \in 1 .. (n \div 2 + 1) |-> Frac((k - 1) * fs, n)]

\* the number of segments of length n, overlapping by noverlap, in len samples
Segments(len, n, noverlap) == (len - noverlap) \div (n - noverlap)

\* scipy.signal.spectrogram(audio_data, fs, nperseg=, noverlap=): a segment
\* length above the signal's length is lowered to it with a warning
spectrogram(audio_data, fs, nperseg, noverlap) ==
    LET n == Min(nperseg, audio_data.len)
        f == FreqGrid(fs, n)
        t == Segments(audio_data.len, n, noverlap)
    IN  IF nperseg < 1 THEN [err |-> "ValueError: nperseg must be a positive integer"]
        ELSE IF noverlap >= n THEN [err |-> "ValueError: noverlap must be less than nperseg."]
        ELSE [err |-> "", f |-> f, frames |-> t,
              Sxx |-> [i \in 1 .. Len(f) |-> [j \in 1 .. t |-> Power(audio_data, i, j, Len(f))]]]

\* matplotlib's Axes.specgram(audio_data, Fs=, NFFT=, noverlap=): a signal
\* shorter than NFFT is padded with zeros up to NFFT
specgram(audio_data, Fs, NFFT, noverlap) ==
    LET len == IF audio_data.len < NFFT THEN NFFT ELSE audio_data.len
        freqs == FreqGrid(Fs, NFFT)
        t == Segments(len, NFFT, noverlap)
    IN  IF noverlap >= NFFT THEN [err |-> "ValueError: noverlap must be less than NFFT"]
        ELSE [err |-> "", f |-> freqs, frames |-> t,
              Sxx |-> [i \in 1 .. Len(freqs) |-> [j \in 1 .. t |-> Power(audio_data, i, j, Len(freqs))]]]

\* 10 * np.log10(Sxx + 1e-10): the floor 1e-10 puts silence at -100 dB and moves
\* the powers of ten used here by less than 1e-5 dB
Log10Floor(power) == IF power = ZeroPower THEN -100 ELSE 10 * power.exp

\* specgram's default scale, 10 * np.log10(spec), has no floor: silence is -inf
Log10(power) == IF power = ZeroPower THEN NegInf ELSE Frac(10 * power.exp, 1)

Entries(m) == {m[i][j] : i \in DOMAIN m, j \in DOMAIN m[1]}

\* ndarray.min() and ndarray.max() of a matrix of integers
amin(m) == CHOOSE x \in Entries(m) : \A y \in Entries(m) : x <= y

amax(m) == CHOOSE x \in Entries(m) : \A y \in Entries(m) : x >= y

\* the rescaling with the minimum left out of the numerator: x / (max - min)
MinMaxNoShift(Sxx_db) ==
    LET lo == amin(Sxx_db)
        hi == amax(Sxx_db)
    IN  [i \in DOMAIN Sxx_db |-> [j \in DOMAIN Sxx_db[i] |->
            TrueDivide(Sxx_db[i][j], hi - lo)]]

\* (Sxx_db - Sxx_db.min()) / (Sxx_db.max() - Sxx_db.min())
MinMax(Sxx_db) ==
    LET lo == amin(Sxx_db)
        hi == amax(Sxx_db)
    IN  [i \in DOMAIN Sxx_db |-> [j \in DOMAIN Sxx_db[i] |->
            TrueDivide(Sxx_db[i][j] - lo, hi - lo)]]

\* Sxx_norm = Sxx_db, as floats
AsFloats(Sxx_db) ==
    [i \in DOMAIN Sxx_db |-> [j \in DOMAIN Sxx_db[i] |-> Frac(Sxx_db[i][j], 1)]]

\* f <= max_freq, elementwise, with max_freq in hundredths of a hertz
AtMost(freq, max_freq) == freq.p * 100 <= max_freq.n * freq.q

\* the mask with < in the place of <=
FreqMaskStrict(f, max_freq) ==
    SelectSeq([k \in 1 .. Len(f) |-> k], LAMBDA k : f[k].p * 100 < max_freq.n * f[k].q)

\* freq_mask = f <= max_freq, as the indices it keeps, in order
FreqMask(f, max_freq) ==
    SelectSeq([k \in 1 .. Len(f) |-> k], LAMBDA k : AtMost(f[k], max_freq))

\* a[freq_mask]: the rows (or entries) the mask keeps
Masked(a, kept) == [x \in 1 .. Len(kept) |-> a[kept[x]]]

\* 2 * np.pi, in degrees
FullTurn == 360

\* the outer radius 1.0, in hundredths
OuterRadius == 100

\* np.linspace without its endpoint: num points spaced (stop - start) / num
linspace_open(start, stop, num) ==
    [i \in 1 .. num |-> Frac(start * num + (i - 1) * (stop - start), num)]

\* np.linspace(start, stop, num): num points from start to stop, both included
linspace(start, stop, num) ==
    [i \in 1 .. num |->
        IF num = 1 THEN Frac(start, 1)
        ELSE Frac(start * (num - 1) + (i - 1) * (stop - start), num - 1)]

\* the edges computed from the matrix's shape itself, without the + 1
MeshEdgesNoExtra(Sxx_norm, polar_inner_radius) ==
    [ theta |-> linspace(0, FullTurn, Len(Sxx_norm[1])),
      r |-> linspace(polar_inner_radius.n, OuterRadius, Len(Sxx_norm)) ]

\* theta = np.linspace(0, 2 * np.pi, Sxx_norm.shape[1] + 1)
\* r = np.linspace(polar_inner_radius, 1.0, Sxx_norm.shape[0] + 1)
MeshEdges(Sxx_norm, polar_inner_radius) ==
    [ theta |-> linspace(0, FullTurn, Len(Sxx_norm[1]) + 1),
      r |-> linspace(polar_inner_radius.n, OuterRadius, Len(Sxx_norm) + 1) ]

\* mcolors.PowerNorm(gamma=gamma)
PowerNorm(gamma) == [gamma |-> gamma]

\* the norm given to pcolormesh when every call passes PowerNorm
PolarNormAlwaysGamma(cfg) == PowerNorm(cfg.norm_gamma)

\* the norm given to pcolormesh: none beside vmin=0, vmax=1 when the data is
\* normalized, PowerNorm otherwise
PolarNorm(cfg) == IF cfg.normalize_db THEN None ELSE PowerNorm(cfg.norm_gamma)

\* _create_polar_spectrogram(audio_data, sample_rate): what it raises, or the
\* values of its locals when it returns
create_polar_spectrogram(audio_data, sample_rate, cfg) ==
    LET est == spectrogram(audio_data, sample_rate, cfg.nperseg, cfg.noverlap)
        Sxx_db == [i \in DOMAIN est.Sxx |-> [j \in DOMAIN est.Sxx[i] |->
                      Log10Floor(est.Sxx[i][j])]]
        \* Sxx_norm as lines 169-173 leave it, before the mask replaces it
        Sxx_full == IF cfg.normalize_db THEN MinMax(Sxx_db) ELSE AsFloats(Sxx_db)
        kept == IF cfg.max_freq # None THEN FreqMask(est.f, cfg.max_freq)
                ELSE [k \in 1 .. Len(est.f) |-> k]
        f == Masked(est.f, kept)
        Sxx_norm == Masked(Sxx_full, kept)
        mesh == MeshEdges(Sxx_norm, cfg.polar_inner_radius)
    IN  IF est.err # "" THEN [err |-> est.err, figure |-> FALSE]
        ELSE [ err |-> "", figure |-> TRUE, f |-> f, frames |-> est.frames,
               Sxx_db |-> Sxx_db, rescaled |-> cfg.normalize_db, Sxx_full |-> Sxx_full,
               Sxx_norm |-> Sxx_norm, theta |-> mesh.theta, r |-> mesh.r,
               vlim |-> IF cfg.normalize_db THEN [lo |-> 0, hi |-> 1] ELSE None,
               norm |-> PolarNorm(cfg), ylim |-> [lo |-> 0, hi |-> PyInt(1)] ]

\* _create_linear_spectrogram(audio_data, sample_rate): the figure is created
\* before specgram runs; cfg.normalize_db is not read
create_linear_spectrogram(audio_data, sample_rate, cfg) ==
    LET est == specgram(audio_data, sample_rate, cfg.nperseg, cfg.noverlap)
    IN  IF est.err # "" THEN [err |-> est.err, figure |-> TRUE]
        ELSE [ err |-> "", figure |-> TRUE, f |-> est.f, frames |-> est.frames,
               Z |-> [i \in DOMAIN est.Sxx |-> [j \in DOMAIN est.Sxx[i] |->
                         Log10(est.Sxx[i][j])]],
               rescaled |-> FALSE, vlim |-> None, norm |-> PowerNorm(cfg.norm_gamma),
               ylim |-> IF cfg.max_freq # None THEN [lo |-> 0, hi |-> cfg.max_freq]
                        ELSE None ]

\* the longest waveform drawn, in samples
MaxSamples == 5

\* the largest nperseg and noverlap drawn
MaxSeg == 4

\* the sample rate of the waveforms drawn, in hertz
SampleRate == 8

Profiles == {"silence", "tone", "hiss", "burst", "ramp"}

Waveforms == [len : 1 .. MaxSamples, profile : Profiles]

\* None, a ceiling between two bins, and a ceiling on a bin of the 4-point grid
MaxFreqs == {None, PyInt(3), PyInt(SampleRate \div 2)}

\* 0.05 (the default), 1.0 and 1.5
InnerRadii == {PyFloat(5), PyFloat(100), PyFloat(150)}

PathConfigs ==
    {replace(SpectrogramConfig, o) :
        o \in [ nperseg : 0 .. MaxSeg, noverlap : 0 .. MaxSeg, max_freq : MaxFreqs,
                polar_inner_radius : InnerRadii, normalize_db : BOOLEAN ]}

\* a waveform whose estimate has 50 frequency bins and 100 frames
LongWaveform == [len |-> 9800, profile |-> "tone"]

LongConfig ==
    replace(SpectrogramConfig,
        [nperseg |-> 98, noverlap |-> 0, max_freq |-> None, normalize_db |-> TRUE])

Pending == [pending |-> TRUE]

InitPaths ==
    /\ mode = "paths"
    /\ \E audio_data \in Waveforms \cup {LongWaveform} :
       \E cfg \in IF audio_data = LongWaveform THEN {LongConfig} ELSE PathConfigs :
          sgram = [ audio_data |-> audio_data, sample_rate |-> SampleRate, cfg |-> cfg,
                    linear |-> Pending, polar |-> Pending ]
    /\ nameParams = <<>> /\ nameRet = <<>>
    /\ themeRet = <<>> /\ ticks = None
    /\ inv = <<>> /\ figures = <<>> /\ figs = <<>> /\ files = <<>> /\ dirs = {}
    /\ config = None /\ configs = <<>> /\ configsGiven = FALSE /\ output_dir = "" /\ mainPc = "none" /\ idx = 0
    /\ parameter_dict = <<>> /\ base_config = None /\ countRet = <<>> /\ combosRet = <<>>

\* generate() of the configuration with projection = "linear"
CreateLinear ==
    /\ mode = "paths"
    /\ sgram.linear = Pending
    /\ sgram' = [sgram EXCEPT !.linear =
                    create_linear_spectrogram(sgram.audio_data, sgram.sample_rate, sgram.cfg)]
    /\ UNCHANGED <<mode, gridVars, mainVars, renderVars, nameParams, nameRet, themeRet, ticks>>

\* generate() of the configuration with projection = "polar"
CreatePolar ==
    /\ mode = "paths"
    /\ sgram.polar = Pending
    /\ sgram' = [sgram EXCEPT !.polar =
                    create_polar_spectrogram(sgram.audio_data, sgram.sample_rate, sgram.cfg)]
    /\ UNCHANGED <<mode, gridVars, mainVars, renderVars, nameParams, nameRet, themeRet, ticks>>

NextPaths == CreateLinear \/ CreatePolar

SpecPaths == InitPaths /\ [][NextPaths]_vars

-----------------------------------------------------------------------------
(* Claims about the two projection paths, checked under SpecPaths. *)

LinearDone == mode = "paths" /\ sgram.linear # Pending

PolarDone == mode = "paths" /\ sgram.polar # Pending

LinearDrawn == LinearDone /\ sgram.linear.err = ""

PolarDrawn == PolarDone /\ sgram.polar.err = ""

\* the spectral parameters the specification calls invalid for this waveform
InvalidSpectral ==
    \/ sgram.cfg.noverlap >= sgram.cfg.nperseg
    \/ sgram.cfg.nperseg <= 0
    \/ sgram.audio_data.len < sgram.cfg.nperseg

\* C11: with noverlap >= nperseg, nperseg <= 0 or a signal shorter than nperseg,
\* spectral estimation fails on the linear and on the polar path alike, and
\* neither path gets as far as drawing an image.
C11_InvalidSpectralParametersFail ==
    (mode = "paths" /\ InvalidSpectral) =>
        /\ LinearDone => sgram.linear.err # ""
        /\ PolarDone => sgram.polar.err # ""

\* C12: a polar render whose polar_inner_radius is outside [0, 1) fails instead
\* of building a mesh.
C12_InnerRadiusOutsideUnitFails ==
    (PolarDone /\ ~(0 <= sgram.cfg.polar_inner_radius.n
                    /\ sgram.cfg.polar_inner_radius.n < OuterRadius)) =>
        sgram.polar.err # ""

Constant(m) == amin(m) = amax(m)

\* C13: with normalize_db, a decibel matrix whose minimum equals its maximum is
\* mapped to 0 in every entry, with no division by zero.
C13_ConstantMatrixMapsToZero ==
    (PolarDrawn /\ sgram.cfg.normalize_db /\ Constant(sgram.polar.Sxx_db)) =>
        \A x \in Entries(sgram.polar.Sxx_full) : x # nan /\ x.p = 0

\* 0 <= x <= 1 for a fraction with a positive denominator
InUnit(x) == x # nan /\ x.q > 0 /\ 0 <= x.p /\ x.p <= x.q

\* C14: with normalize_db and a decibel matrix whose minimum differs from its
\* maximum, every entry of the rescaled matrix lies in [0, 1], some entry is 0
\* and some entry is 1.
C14_NormalizedSpansUnit ==
    (PolarDrawn /\ sgram.cfg.normalize_db /\ ~Constant(sgram.polar.Sxx_db)) =>
        /\ \A x \in Entries(sgram.polar.Sxx_full) : InUnit(x)
        /\ \E x \in Entries(sgram.polar.Sxx_full) : x.p = 0
        /\ \E x \in Entries(sgram.polar.Sxx_full) : x.p = x.q

\* a rescaled matrix with an entry strictly between 0 and 1
C14_Witness ==
    /\ PolarDrawn /\ sgram.cfg.normalize_db /\ ~Constant(sgram.polar.Sxx_db)
    /\ \E x \in Entries(sgram.polar.Sxx_full) : 0 < x.p /\ x.p < x.q

\* C15: on neither path, for neither value of normalize_db, are the min-max
\* rescaling and the norm_gamma power-law norm both applied to the values drawn.
C15_NeverRescaledAndGamma ==
    /\ LinearDrawn => ~(sgram.linear.rescaled /\ sgram.linear.norm # None)
    /\ PolarDrawn => ~(sgram.polar.rescaled /\ sgram.polar.norm # None)

\* both paths have drawn the same waveform, once with and once without gamma
C15_Witness ==
    /\ LinearDrawn /\ PolarDrawn /\ sgram.cfg.normalize_db
    /\ sgram.polar.rescaled /\ sgram.polar.norm = None
    /\ sgram.linear.norm = PowerNorm(sgram.cfg.norm_gamma)

\* C16: for one waveform and one configuration but for projection, the linear
\* and the polar path apply the same value transformations: the same rescaling
\* and the same gamma colour mapping.
C16_SameTransformations ==
    (LinearDrawn /\ PolarDrawn) =>
        /\ sgram.linear.rescaled = sgram.polar.rescaled
        /\ sgram.linear.norm = sgram.polar.norm

\* the frequencies of the bins inside the linear axes' vertical view limits
VisibleLinear ==
    {sgram.linear.f[k] : k \in
        {k \in DOMAIN sgram.linear.f :
            \/ sgram.linear.ylim = None
            \/ /\ sgram.linear.f[k].p >= sgram.linear.ylim.lo
               /\ AtMost(sgram.linear.f[k], sgram.linear.ylim.hi)}}

\* the frequencies of the bins the polar mesh draws
RetainedPolar == {sgram.polar.f[k] : k \in DOMAIN sgram.polar.f}

\* both estimators worked on the same frequency grid (the signal is not
\* shorter than nperseg)
SameMatrix == sgram.audio_data.len >= sgram.cfg.nperseg

FracEq(a, b) == a.p * b.q = b.p * a.q

FracSub(a, b) == Frac(a.p * b.q - b.p * a.q, a.q * b.q)

\* edges run from start to stop in equal steps
EvenlySpaced(edges, start, stop) ==
    /\ FracEq(edges[1], Frac(start, 1))
    /\ FracEq(edges[Len(edges)], Frac(stop, 1))
    /\ \A i \in 1 .. (Len(edges) - 1) :
          FracEq(FracSub(edges[i + 1], edges[i]), FracSub(edges[2], edges[1]))

\* C18: for F retained bins and T frames the polar mesh has T + 1 evenly spaced
\* angular edges from 0 to a full turn and F + 1 evenly spaced radial edges
\* from polar_inner_radius to 1.0: F x T cells, one per matrix entry.
C18_MeshEdges ==
    PolarDrawn =>
        LET F == Len(sgram.polar.f)
            T == sgram.polar.frames
        IN  /\ Len(sgram.polar.Sxx_norm) = F
            /\ \A i \in 1 .. F : Len(sgram.polar.Sxx_norm[i]) = T
            /\ Len(sgram.polar.theta) = T + 1
            /\ Len(sgram.polar.r) = F + 1
            /\ EvenlySpaced(sgram.polar.theta, 0, FullTurn)
            /\ EvenlySpaced(sgram.polar.r, sgram.cfg.polar_inner_radius.n, OuterRadius)
            /\ (Len(sgram.polar.theta) - 1) * (Len(sgram.polar.r) - 1) = F * T

\* a mesh of several bins and several frames around the default hole
C18_Witness ==
    /\ PolarDrawn /\ Len(sgram.polar.f) >= 2 /\ sgram.polar.frames >= 2
    /\ sgram.cfg.polar_inner_radius = PyFloat(5)
    /\ sgram.cfg.max_freq # None

LongInput == mode = "paths" /\ sgram.audio_data = LongWaveform

\* C19 as stated: inner radius 0.05, 100 frames and 50 bins give 51 angular
\* and 51 radial edges.
C19_FiftyOneAngularEdges ==
    (LongInput /\ PolarDrawn) =>
        Len(sgram.polar.theta) = 51 /\ Len(sgram.polar.r) = 51

\* C19: a polar projection with inner radius 0.05 of an input with 100 frames
\* and 50 bins has 101 angular edges and 51 radial edges.
C19_ExampleMesh ==
    (LongInput /\ PolarDrawn) =>
        /\ sgram.cfg.polar_inner_radius = PyFloat(5)
        /\ sgram.polar.frames = 100 /\ Len(sgram.polar.f) = 50
        /\ Len(sgram.polar.theta) = 101 /\ Len(sgram.polar.r) = 51

C19_Witness == LongInput /\ PolarDrawn /\ Len(sgram.polar.Sxx_norm) = 50

-----------------------------------------------------------------------------
(* create_filename on its own: the dicts it is given and what it returns. *)

\* how many times create_filename is called on one dict
MaxNameCalls == 2

\* dicts holding only the five keys of the docstring's example
SparseParams ==
    [ cmap : {"magma", "viridis"}, projection : {"linear", "polar"},
      figsize : {<<11, 5>>, <<12, 12>>},
      norm_gamma : {PyInt(4), PyFloat(400), PyFloat(250)}, dpi : {300, 600} ]

\* asdict(cfg), as main's batch loop passes it: every field is present
FullParams ==
    {asdict(replace(SpectrogramConfig, o)) :
        o \in [ projection : {"linear", "polar"},
                polar_inner_radius : {PyFloat(5), PyFloat(30)},
                nperseg : {256, 2048},
                max_freq : {None, PyInt(18000), PyFloat(1800000), PyInt(8000)},
                title : {"Spectrogram", "", "2001: A Space Odyssey",
                         "A Title Longer Than Twenty Characters"},
                title_font : {"Helvetica", "Times New Roman"},
                output_format : {"jpg", "png"} ]}

NameParams == SparseParams \cup FullParams \cup {<<>>, [cmap |-> "magma"]}

InitName ==
    /\ mode = "name"
    /\ nameParams \in NameParams
    /\ nameRet = <<>>
    /\ sgram = None
    /\ themeRet = <<>> /\ ticks = None
    /\ inv = <<>> /\ figures = <<>> /\ figs = <<>> /\ files = <<>> /\ dirs = {}
    /\ config = None /\ configs = <<>> /\ configsGiven = FALSE /\ output_dir = "" /\ mainPc = "none" /\ idx = 0
    /\ parameter_dict = <<>> /\ base_config = None /\ countRet = <<>> /\ combosRet = <<>>

CreateFilename ==
    /\ mode = "name"
    /\ Len(nameRet) < MaxNameCalls
    /\ nameRet' = Append(nameRet, create_filename(nameParams))
    /\ UNCHANGED <<mode, gridVars, mainVars, renderVars, sgram, nameParams, themeRet, ticks>>

NextName == CreateFilename

SpecName == InitName /\ [][NextName]_vars

-----------------------------------------------------------------------------
(* Claims about create_filename, checked under SpecName. *)

\* the docstring's example
ExampleParams ==
    [ cmap |-> "magma", projection |-> "polar", figsize |-> <<11, 5>>,
      norm_gamma |-> PyInt(4), dpi |-> 300 ]

\* "_".join(tokens)
RECURSIVE JoinUnderscore(_)
JoinUnderscore(tokens) ==
    IF Len(tokens) = 1 THEN tokens[1]
    ELSE tokens[1] \o "_" \o JoinUnderscore(Tail(tokens))

\* the six tokens every name starts with
BaseTokens(d) ==
    LET size == Get(d, "figsize", <<11, 5>>)
    IN  << "spectrogram", Get(d, "cmap", "default"), Get(d, "projection", "linear"),
           IntStr(size[1]) \o "x" \o IntStr(size[2]),
           "gamma" \o NumStr(Get(d, "norm_gamma", PyInt(4))),
           "dpi" \o IntStr(Get(d, "dpi", 300)) >>

StartsWith(str, prefix) ==
    Len(str) >= Len(prefix) /\ SubSeq(str, 1, Len(prefix)) = prefix

EndsWith(str, suffix) ==
    Len(str) >= Len(suffix) /\ SubSeq(str, Len(str) - Len(suffix) + 1, Len(str)) = suffix

\* C20: the dict of the example (cmap magma, projection polar, figsize (11,5),
\* norm_gamma 4, dpi 300, no format) gives exactly
\* 'spectrogram_magma_polar_11x5_gamma4_dpi300.jpg', and every name is
\* 'spectrogram', colormap, projection, WxH, gamma<value>, dpi<value> joined by
\* underscores, then the optional tokens (each led by an underscore), then
\* '.<output_format>'.
C20_NameForm ==
    \A c \in DOMAIN nameRet :
        LET base == JoinUnderscore(BaseTokens(nameParams))
            ext == "." \o Get(nameParams, "output_format", "jpg")
            optional == SubSeq(nameRet[c], Len(base) + 1, Len(nameRet[c]) - Len(ext))
        IN  /\ nameParams = ExampleParams =>
                  nameRet[c] = "spectrogram_magma_polar_11x5_gamma4_dpi300.jpg"
            /\ StartsWith(nameRet[c], base)
            /\ EndsWith(nameRet[c], ext)
            /\ Len(nameRet[c]) >= Len(base) + Len(ext)
            /\ optional = "" \/ Head(optional) = "_"

\* create_filename has returned the example's name
C20_Witness ==
    /\ mode = "name" /\ nameParams = ExampleParams
    /\ nameRet # <<>> /\ nameRet[1] = "spectrogram_magma_polar_11x5_gamma4_dpi300.jpg"

\* str.split(sep) for a one-character sep: the pieces between one cut and the
\* next, the start and the end of the string counting as cuts
Split(str, sep) ==
    LET n == Len(str)
        cuts == {0, n + 1} \cup {i \in 1 .. n : SubSeq(str, i, i) = sep}
        Cut(t) == CHOOSE c \in cuts : Cardinality({b \in cuts : b < c}) = t - 1
    IN  [t \in 1 .. Cardinality(cuts) - 1 |-> SubSeq(str, Cut(t) + 1, Cut(t + 1) - 1)]

\* the underscore-separated tokens of a name, its extension taken off
Tokens(name, d) ==
    LET ext == "." \o Get(d, "output_format", "jpg")
    IN  Split(SubSeq(name, 1, Len(name) - Len(ext)), "_")

\* the tokens after the dpi token
OptionalTokens(name, d) == SubSeq(Tokens(name, d), 7, Len(Tokens(name, d)))

HasTokenOf(tokens, kind) == \E i \in DOMAIN tokens : StartsWith(tokens[i], kind)

\* the dict holds the three optional numeric fields
HasNumericFields(d) == {"polar_inner_radius", "nperseg", "max_freq"} \subseteq DOMAIN d

\* C21 as stated: a hole token exactly when polar_inner_radius differs from
\* 0.05, a seg token exactly when nperseg differs from 256, a freq token
\* exactly when max_freq differs from 18000.
C21_TokenExactlyWhenDiffers ==
    \A c \in DOMAIN nameRet :
        HasNumericFields(nameParams) =>
            LET opt == OptionalTokens(nameRet[c], nameParams)
            IN  /\ HasTokenOf(opt, "hole") <=> nameParams.polar_inner_radius # PyFloat(5)
                /\ HasTokenOf(opt, "seg") <=> nameParams.nperseg # 256
                /\ HasTokenOf(opt, "freq") <=>
                      (nameParams.max_freq = None \/ nameParams.max_freq.n # 1800000)

\* the hole, seg and freq tokens a dict calls for, in that order
NumericTokens(d) ==
    (IF /\ d.projection = "polar" /\ d.polar_inner_radius # None
        /\ d.polar_inner_radius.n # 5
     THEN <<"hole" \o NumStr(d.polar_inner_radius)>> ELSE <<>>)
    \o (IF d.nperseg # 256 THEN <<"seg" \o IntStr(d.nperseg)>> ELSE <<>>)
    \o (IF d.max_freq # None /\ d.max_freq.n # 1800000
        THEN <<"freq" \o NumStr(d.max_freq)>> ELSE <<>>)

\* C21: right after the dpi token come, in this order, a hole<value> token
\* exactly when the projection is polar and polar_inner_radius differs from
\* 0.05, a seg<value> token exactly when nperseg differs from 256, and a
\* freq<value> token exactly when max_freq is not None and differs from 18000.
C21_NumericTokens ==
    \A c \in DOMAIN nameRet :
        HasNumericFields(nameParams) =>
            LET opt == OptionalTokens(nameRet[c], nameParams)
                want == NumericTokens(nameParams)
            IN  /\ Len(opt) >= Len(want)
                /\ SubSeq(opt, 1, Len(want)) = want
                /\ \A i \in (Len(want) + 1) .. Len(opt) :
                      \A kind \in {"hole", "seg", "freq"} : ~StartsWith(opt[i], kind)

\* a polar name with all three tokens
C21_Witness ==
    /\ mode = "name" /\ nameRet # <<>> /\ HasNumericFields(nameParams)
    /\ Len(NumericTokens(nameParams)) = 3
    /\ SubSeq(OptionalTokens(nameRet[1], nameParams), 1, 3) = NumericTokens(nameParams)

\* a font or title is set: the key is there and its value is not empty
IsSet(d, key) == key \in DOMAIN d /\ d[key] # ""

\* the font and title tokens the claim calls for
TextTokens(d) ==
    (IF IsSet(d, "title_font") THEN <<StripSpaces(d.title_font)>> ELSE <<>>)
    \o (IF IsSet(d, "title") THEN <<Prefix(StripSpaces(d.title), 20)>> ELSE <<>>)

\* C22: a set font adds a token equal to the font name without its spaces; a
\* set title adds, after it, a token equal to the title without its spaces cut
\* to 20 characters; a font or title that is not set adds no token and no
\* underscore.
C22_FontAndTitleTokens ==
    \A c \in DOMAIN nameRet :
        LET opt == OptionalTokens(nameRet[c], nameParams)
            numeric == IF HasNumericFields(nameParams) THEN NumericTokens(nameParams)
                       ELSE <<>>
        IN  opt = numeric \o TextTokens(nameParams)

-----------------------------------------------------------------------------
(* create_filename on configurations that differ only in their title. *)

Titles ==
    {"Spectrogram", "", "2001: A Space Odyssey", "A Title Longer Than Twenty Characters"}

\* the configurations whose title is then varied
TitledParams ==
    {d \in FullParams : d.nperseg = 2048 /\ d.max_freq \in {None, PyInt(8000)}}

InitTitles ==
    /\ mode = "titles"
    /\ nameParams \in TitledParams
    /\ nameRet = <<>>
    /\ sgram = None
    /\ themeRet = <<>> /\ ticks = None
    /\ inv = <<>> /\ figures = <<>> /\ figs = <<>> /\ files = <<>> /\ dirs = {}
    /\ config = None /\ configs = <<>> /\ configsGiven = FALSE /\ output_dir = "" /\ mainPc = "none" /\ idx = 0
    /\ parameter_dict = <<>> /\ base_config = None /\ countRet = <<>> /\ combosRet = <<>>

\* create_filename(asdict(replace(cfg, title=title))): nameRet keeps the title
\* beside the name returned
CreateFilenameTitled ==
    /\ mode = "titles"
    /\ Len(nameRet) < MaxNameCalls
    /\ \E title \in Titles :
          nameRet' = Append(nameRet,
                        [ title |-> title,
                          name |-> create_filename([nameParams EXCEPT !.title = title]) ])
    /\ UNCHANGED <<mode, gridVars, mainVars, renderVars, sgram, nameParams, themeRet, ticks>>

NextTitles == CreateFilenameTitled

SpecTitles == InitTitles /\ [][NextTitles]_vars

\* every token but the last
ButLast(tokens) == SubSeq(tokens, 1, Len(tokens) - 1)

\* C23: the names of two configurations that agree on every field but title
\* agree in their extension and in every token but the title token (the last),
\* and the names of two identical configurations are identical.
C23_OnlyTitleTokenDiffers ==
    \A a, b \in DOMAIN nameRet :
        /\ EndsWith(nameRet[a].name, "." \o nameParams.output_format)
        /\ ButLast(Tokens(nameRet[a].name, nameParams))
              = ButLast(Tokens(nameRet[b].name, nameParams))
        /\ nameRet[a].title = nameRet[b].title => nameRet[a].name = nameRet[b].name

\* two titles have given two names
C23_Witness ==
    /\ mode = "titles" /\ Len(nameRet) >= 2
    /\ nameRet[1].title # nameRet[2].title /\ nameRet[1].name # nameRet[2].name

-----------------------------------------------------------------------------
(* The theme factories, called one after another. *)

\* how many factory calls are made
MaxThemeCalls == 3

Themes == {"minimal", "polar_grayscale"}

\* the factory of that name, called with **overrides
ThemeCallOf(theme, overrides) ==
    IF theme = "minimal" THEN minimal(overrides) ELSE polar_grayscale(overrides)

\* keyword arguments a consumer passes: none, one field, several fields
ThemeOverrides ==
    { NoOverrides, [title |-> "My Song"], [cmap |-> "viridis"],
      [projection |-> "polar", dpi |-> 600],
      [title |-> "", title_position |-> "top", max_freq |-> None] }

InitTheme ==
    /\ mode = "theme"
    /\ themeRet = <<>>
    /\ ticks = None
    /\ sgram = None /\ nameParams = <<>> /\ nameRet = <<>>
    /\ inv = <<>> /\ figures = <<>> /\ figs = <<>> /\ files = <<>> /\ dirs = {}
    /\ config = None /\ configs = <<>> /\ configsGiven = FALSE /\ output_dir = "" /\ mainPc = "none" /\ idx = 0
    /\ parameter_dict = <<>> /\ base_config = None /\ countRet = <<>> /\ combosRet = <<>>

\* a factory that keeps one base object and writes the overrides into it: a
\* later call starts from what the last call of that theme returned
ThemeCallSharedBase ==
    /\ mode = "theme"
    /\ Len(themeRet) < MaxThemeCalls
    /\ \E theme \in Themes, overrides \in ThemeOverrides :
          LET earlier == {c \in DOMAIN themeRet : themeRet[c].theme = theme}
              base == IF earlier = {} THEN ThemeCallOf(theme, NoOverrides)
                      ELSE themeRet[CHOOSE c \in earlier : \A e \in earlier : e <= c].ret
          IN  themeRet' = Append(themeRet,
                             [ theme |-> theme, overrides |-> overrides,
                               ret |-> replace(base, overrides) ])
    /\ UNCHANGED <<mode, gridVars, mainVars, renderVars, sgram, nameParams, nameRet, ticks>>

\* theme(**overrides): base is built anew in every call, and replace returns a
\* new object
ThemeCall ==
    /\ mode = "theme"
    /\ Len(themeRet) < MaxThemeCalls
    /\ \E theme \in Themes, overrides \in ThemeOverrides :
          themeRet' = Append(themeRet,
                         [ theme |-> theme, overrides |-> overrides,
                           ret |-> ThemeCallOf(theme, overrides) ])
    /\ UNCHANGED <<mode, gridVars, mainVars, renderVars, sgram, nameParams, nameRet, ticks>>

NextTheme == ThemeCall

SpecTheme == InitTheme /\ [][NextTheme]_vars

\* the values the theme's source gives to the fields the claims look at
ThemeDefault(theme, field) ==
    IF theme = "minimal"
    THEN CASE field = "title" -> "Spectrogram" [] field = "cmap" -> "magma"
           [] field = "projection" -> "linear" [] field = "dpi" -> 300
           [] field = "title_position" -> "bottom" [] field = "max_freq" -> PyInt(8000)
           [] field = "output_format" -> "jpg" [] field = "background" -> "transparent"
    ELSE CASE field = "title" -> "" [] field = "cmap" -> "gray_r"
           [] field = "projection" -> "polar" [] field = "dpi" -> 300
           [] field = "title_position" -> "top" [] field = "max_freq" -> PyInt(10000)
           [] field = "output_format" -> "png" [] field = "background" -> "white"

CheckedFields ==
    { "title", "cmap", "projection", "dpi", "title_position", "max_freq",
      "output_format", "background" }

\* C24: whatever calls came before, a factory call returns the overrides in
\* the overridden fields and the theme's defaults in every other field; so a
\* call with no overrides returns the theme's defaults.
C24_OverridesAndDefaults ==
    \A c \in DOMAIN themeRet :
        LET call == themeRet[c]
        IN  /\ DOMAIN call.ret = DOMAIN SpectrogramConfig
            /\ \A k \in DOMAIN call.overrides : call.ret[k] = call.overrides[k]
            /\ \A k \in CheckedFields \ DOMAIN call.overrides :
                  call.ret[k] = ThemeDefault(call.theme, k)
            /\ \A k \in DOMAIN call.ret \ DOMAIN call.overrides :
                  call.ret[k] = ThemeCallOf(call.theme, NoOverrides)[k]
            /\ \A e \in 1 .. c :
                  (themeRet[e].theme = call.theme
                      /\ themeRet[e].overrides = call.overrides) =>
                      themeRet[e].ret = call.ret

\* a call with no overrides after a call of the same theme with overrides
C24_Witness ==
    /\ mode = "theme" /\ Len(themeRet) >= 2
    /\ themeRet[1].theme = themeRet[2].theme
    /\ themeRet[1].overrides = [title |-> "My Song"]
    /\ themeRet[2].overrides = NoOverrides
    /\ themeRet[2].ret.title = ThemeDefault(themeRet[2].theme, "title")

-----------------------------------------------------------------------------
(* The time ticks of _style_linear_axes ("minimal") and _style_polar_axes  *)
(* ("full").  A duration is the fraction len(audio_data) / sample_rate;    *)
(* tick times are whole seconds.                                           *)

\* the longest waveform drawn for the ticks, in samples
MaxTickSamples == 160

\* the sample rate of these waveforms, in hertz
TickSampleRate == 2

\* the time_tick_interval values drawn, in seconds: the default and two others
TickIntervals == {7, 15, 60}

\* np.arange with its stop included when the step divides it
arange_closed(stop, step) ==
    [i \in 1 .. (stop.p \div (stop.q * step) + 1) |-> (i - 1) * step]

\* np.arange(0, stop, step) for a positive fraction stop and a positive integer
\* step: ceil(stop / step) values 0, step, 2 * step, ...
arange(stop, step) ==
    [i \in 1 .. ((stop.p + stop.q * step - 1) \div (stop.q * step)) |-> (i - 1) * step]

\* f"{int(t // 60)}:{int(t % 60):02d}"
TickLabel(t) ==
    IntStr(t \div 60) \o ":" \o (IF t % 60 < 10 THEN "0" ELSE "") \o IntStr(t % 60)

\* lines 291-297: tick_positions, tick_labels and the spine's bounds
style_linear_axes(duration, cfg) ==
    LET tick_positions == arange(duration, cfg.time_tick_interval)
    IN  [ xticks |-> tick_positions,
          xticklabels |-> [i \in DOMAIN tick_positions |-> TickLabel(tick_positions[i])],
          bounds |-> <<tick_positions[1], tick_positions[Len(tick_positions)]>> ]

\* lines 352-357: time_positions, theta_positions (in degrees) and labels
style_polar_axes(duration, cfg) ==
    LET time_positions == arange(duration, cfg.time_tick_interval)
    IN  [ time_positions |-> time_positions,
          xticks |-> [i \in DOMAIN time_positions |->
                         Frac(time_positions[i] * duration.q * FullTurn, duration.p)],
          xticklabels |-> [i \in DOMAIN time_positions |-> TickLabel(time_positions[i])] ]

InitTicks ==
    /\ mode = "ticks"
    /\ \E len \in 1 .. MaxTickSamples, k \in TickIntervals :
          ticks = [ duration |-> Frac(len, TickSampleRate),
                    cfg |-> replace(SpectrogramConfig, [time_tick_interval |-> k]),
                    linear |-> Pending, polar |-> Pending ]
    /\ themeRet = <<>>
    /\ sgram = None /\ nameParams = <<>> /\ nameRet = <<>>
    /\ inv = <<>> /\ figures = <<>> /\ figs = <<>> /\ files = <<>> /\ dirs = {}
    /\ config = None /\ configs = <<>> /\ configsGiven = FALSE /\ output_dir = "" /\ mainPc = "none" /\ idx = 0
    /\ parameter_dict = <<>> /\ base_config = None /\ countRet = <<>> /\ combosRet = <<>>

\* _style_linear_axes with show_axes = "minimal"
StyleLinearAxes ==
    /\ mode = "ticks"
    /\ ticks.linear = Pending
    /\ ticks' = [ticks EXCEPT !.linear = style_linear_axes(ticks.duration, ticks.cfg)]
    /\ UNCHANGED <<mode, gridVars, mainVars, renderVars, sgram, nameParams, nameRet, themeRet>>

\* _style_polar_axes with show_axes = "full"
StylePolarAxes ==
    /\ mode = "ticks"
    /\ ticks.polar = Pending
    /\ ticks' = [ticks EXCEPT !.polar = style_polar_axes(ticks.duration, ticks.cfg)]
    /\ UNCHANGED <<mode, gridVars, mainVars, renderVars, sgram, nameParams, nameRet, themeRet>>

NextTicks == StyleLinearAxes \/ StylePolarAxes

SpecTicks == InitTicks /\ [][NextTicks]_vars

\* times is 0, k, 2k, ... up to the last multiple strictly below the duration
MultiplesBelow(times, k, duration) ==
    /\ Len(times) >= 1
    /\ \A i \in DOMAIN times : times[i] = (i - 1) * k /\ times[i] * duration.q < duration.p
    /\ (Len(times) * k) * duration.q >= duration.p

\* labels[i] is M:SS of times[i]
LabelledMSS(times, labels) ==
    /\ Len(labels) = Len(times)
    /\ \A i \in DOMAIN times :
          LET parts == Split(labels[i], ":")
          IN  /\ Len(parts) = 2
              /\ parts[1] = IntStr(times[i] \div 60)
              /\ Len(parts[2]) = 2
              /\ parts[2] \in {IntStr(times[i] % 60), "0" \o IntStr(times[i] % 60)}

\* C27: for a positive duration and a positive time_tick_interval k, both tiers
\* put their ticks at exactly the times 0, k, 2k, ... strictly below the
\* duration (never an empty list), label the tick at t with M:SS where
\* M = t div 60 and SS = t mod 60 in two digits, and each polar tick's angle
\* time / duration * 2 * pi lies in [0, 2 * pi).
C27_TimeTicks ==
    /\ (mode = "ticks" /\ ticks.linear # Pending) =>
          /\ MultiplesBelow(ticks.linear.xticks, ticks.cfg.time_tick_interval, ticks.duration)
          /\ LabelledMSS(ticks.linear.xticks, ticks.linear.xticklabels)
    /\ (mode = "ticks" /\ ticks.polar # Pending) =>
          /\ MultiplesBelow(ticks.polar.time_positions, ticks.cfg.time_tick_interval,
                            ticks.duration)
          /\ LabelledMSS(ticks.polar.time_positions, ticks.polar.xticklabels)
          /\ \A i \in DOMAIN ticks.polar.xticks :
                /\ FracEq(ticks.polar.xticks[i],
                          Frac(ticks.polar.time_positions[i] * ticks.duration.q * FullTurn,
                               ticks.duration.p))
                /\ 0 <= ticks.polar.xticks[i].p
                /\ ticks.polar.xticks[i].p < FullTurn * ticks.polar.xticks[i].q

\* both tiers have drawn a duration that is a whole number of intervals, past
\* one minute
C27_Witness ==
    /\ mode = "ticks" /\ ticks.linear # Pending /\ ticks.polar # Pending
    /\ ticks.duration = Frac(150, TickSampleRate) /\ ticks.cfg.time_tick_interval = 15
    /\ ticks.linear.xticklabels = <<"0:00", "0:15", "0:30", "0:45", "1:00">>
    /\ Len(ticks.polar.xticks) = 5

-----------------------------------------------------------------------------
(* The matrix the polar path draws, checked under SpecPaths. *)

\* C30: with normalize_db and max_freq set, the matrix drawn (the rows the
\* mask keeps) has minimum 0 and maximum 1 whenever its entries are not all
\* equal: the rescaling is taken over the retained bins.
C30_DrawnMatrixSpansUnit ==
    (/\ PolarDrawn /\ sgram.cfg.normalize_db /\ sgram.cfg.max_freq # None
     /\ Cardinality(Entries(sgram.polar.Sxx_norm)) > 1) =>
        /\ \E x \in Entries(sgram.polar.Sxx_norm) : x.p = 0
        /\ \E x \in Entries(sgram.polar.Sxx_norm) : x.p = x.q

====
